---- MODULE Spec2Model ----
(***************************************************************************)
(* Model of src/server.js: the in-memory cache (getCache / setCache /      *)
(* cacheKey), the two sheet loaders (listSheetTabs, readSheetToJson) and   *)
(* the three Express routes that call them.                                *)
(*                                                                         *)
(* Encoding of JavaScript values                                           *)
(*   - a cell of the grid is a string on which .trim() works per           *)
(*     character, so a cell is a tuple of one-character strings;           *)
(*   - tab names, SHEET_ID and the joined key are TLA+ strings (\o joins);  *)
(*   - a JS object built by assignment (obj[k] = v, payload[t] = v) is the  *)
(*     sequence of its <<key, value>> pairs in insertion order;            *)
(*   - "null or a value" is the empty tuple or the one-element tuple.      *)
(* Time is Date.now() in abstract units; one atomic step of the model is    *)
(* one run of the event loop between two awaits.                           *)
(***************************************************************************)
EXTENDS Integers, Sequences, FiniteSets, TLC

VARIABLES now, cache, pc, route, reqTab, tabs, idx, cur, table, payload,
          removed, fetches, lastOp, lastSet, listed, lastResp, nGrid, nOut,
          kParts, kOut

vars == <<now, cache, pc, route, reqTab, tabs, idx, cur, table, payload,
          removed, fetches, lastOp, lastSet, listed, lastResp, nGrid, nOut,
          kParts, kOut>>

reqVars == <<pc, route, reqTab, tabs, idx, cur, table, payload, removed,
            fetches>>
cacheVars == <<cache, lastSet, listed>>
normVars == <<nGrid, nOut>>
keyVars == <<kParts, kOut>>

(* ------------------------------ bounds -------------------------------- *)
MaxTime == 2
MaxCols == 2
MaxBodyRows == 2
MaxNameLen == 2

(* --------------------------- configuration ---------------------------- *)
CACHE_TTL_MS == 1
SHEET_ID == "S1"

(* --------------------------- small helpers ---------------------------- *)
None == << >>
Some(v) == <<v>>

Max(a, b) == IF a >= b THEN a ELSE b
Elems(seq) == {seq[i] : i \in 1..Len(seq)}

SeqsUpTo(S, n) == UNION {[1..k -> S] : k \in 0..n}

(* ---------------------- the cache: server.js 95-110 ------------------- *)
GetCache_Sweep(c, key, t) ==
  LET swept == [k \in {x \in DOMAIN c : t <= c[x].expiresAt} |-> c[k]] IN
  IF key \notin DOMAIN swept THEN [ret |-> None, cache |-> swept]
  ELSE [ret |-> Some(c[key].data), cache |-> swept]

GetCache_NoExpiry(c, key, t) ==
  IF key \notin DOMAIN c THEN [ret |-> None, cache |-> c]
  ELSE [ret |-> Some(c[key].data), cache |-> c]

GetCache_Geq(c, key, t) ==
  IF key \notin DOMAIN c THEN [ret |-> None, cache |-> c]
  ELSE IF t >= c[key].expiresAt
       THEN [ret |-> None, cache |-> [k \in DOMAIN c \ {key} |-> c[k]]]
       ELSE [ret |-> Some(c[key].data), cache |-> c]

GetCache_Touch(c, key, t) ==
  IF key \notin DOMAIN c THEN [ret |-> None, cache |-> c]
  ELSE IF t > c[key].expiresAt
       THEN [ret |-> None, cache |-> [k \in DOMAIN c \ {key} |-> c[k]]]
       ELSE [ret |-> Some(c[key].data),
             cache |-> [c EXCEPT ![key].expiresAt = t + CACHE_TTL_MS]]

\* getCache(key) evaluated on cache c at time t: the returned value and the
\* cache it leaves behind.
GetCache(c, key, t) ==
  IF key \notin DOMAIN c THEN [ret |-> None, cache |-> c]
  ELSE IF t > c[key].expiresAt
       THEN [ret |-> None, cache |-> [k \in DOMAIN c \ {key} |-> c[k]]]
       ELSE [ret |-> Some(c[key].data), cache |-> c]

SetCache_KeepLive(c, key, data, t) ==
  IF key \in DOMAIN c /\ t <= c[key].expiresAt THEN c
  ELSE [k \in DOMAIN c \cup {key} |->
          IF k = key THEN [expiresAt |-> t + CACHE_TTL_MS, data |-> data]
          ELSE c[k]]

SetCache_IfAbsent(c, key, data, t) ==
  IF key \in DOMAIN c THEN c
  ELSE [k \in DOMAIN c \cup {key} |->
          IF k = key THEN [expiresAt |-> t + CACHE_TTL_MS, data |-> data]
          ELSE c[k]]

SetCache_DoubleTtl(c, key, data, t) ==
  [k \in DOMAIN c \cup {key} |->
     IF k = key THEN [expiresAt |-> t + 2 * CACHE_TTL_MS, data |-> data]
     ELSE c[k]]

\* setCache(key, data) with the default ttlMs = CACHE_TTL_MS, at time t.
SetCache(c, key, data, t) ==
  [k \in DOMAIN c \cup {key} |->
     IF k = key THEN [expiresAt |-> t + CACHE_TTL_MS, data |-> data]
     ELSE c[k]]

Join_FirstTwo(parts) ==
  IF Len(parts) = 0 THEN ""
  ELSE IF Len(parts) = 1 THEN parts[1]
  ELSE parts[1] \o "|" \o parts[2]

\* parts.join("|")
RECURSIVE Join(_)
Join(parts) ==
  IF Len(parts) = 0 THEN ""
  ELSE IF Len(parts) = 1 THEN parts[1]
  ELSE parts[1] \o "|" \o Join(Tail(parts))

\* crypto.createHash("md5").update(s).digest("hex"): the digest is kept as a
\* tagged copy of its input, i.e. MD5 is taken to be collision-free.
Md5Hex(s) == <<"md5", s>>

cacheKey_DropLast(parts) == Md5Hex(Join(SubSeq(parts, 1, 2)))

cacheKey(parts) == Md5Hex(Join(parts))

TabsKey == cacheKey(<<"tabs", SHEET_ID>>)
DataKey_NoTab(tabName) == cacheKey(<<"data", SHEET_ID, "">>)

DataKey(tabName) == cacheKey(<<"data", SHEET_ID, tabName>>)

(* ----------------- the normalizer: server.js 151-186 ------------------ *)
IsSpace(ch) == ch = " "

RECURSIVE TrimStart(_)
TrimStart(s) ==
  IF Len(s) > 0 /\ IsSpace(Head(s)) THEN TrimStart(Tail(s)) ELSE s

RECURSIVE TrimEnd(_)
TrimEnd(s) ==
  IF Len(s) > 0 /\ IsSpace(s[Len(s)]) THEN TrimEnd(SubSeq(s, 1, Len(s) - 1))
  ELSE s

\* (h || "").trim()
Trim(s) == TrimEnd(TrimStart(s))

\* `Col${i + 1}` where n = i + 1
ColName(n) == <<"C", "o", "l", ToString(n)>>

\* obj[k] = v on an object kept as its pairs in insertion order
ObjHas(obj, k) == \E j \in 1..Len(obj) : obj[j][1] = k
ObjGet(obj, k) == obj[CHOOSE j \in 1..Len(obj) : obj[j][1] = k][2]
ObjKeys(obj) == {obj[j][1] : j \in 1..Len(obj)}
ObjSet(obj, k, v) ==
  IF ObjHas(obj, k)
  THEN [j \in 1..Len(obj) |-> IF obj[j][1] = k THEN <<k, v>> ELSE obj[j]]
  ELSE Append(obj, <<k, v>>)

\* the value JavaScript gives for an index past the end of an array; no cell
\* is this value (a cell is a sequence of one-character strings)
Undefined == <<"undefined">>

CellOr_Raw(row, n) == IF n <= Len(row) THEN row[n] ELSE Undefined

\* row[i] ?? "" where n = i + 1
CellOr(row, n) == IF n <= Len(row) THEN row[n] ELSE << >>

\* headers.forEach((h, i) => { obj[keys[i]] = row[i] ?? "" }) from position n on
RECURSIVE FillObj(_, _, _, _)
FillObj(keys, row, n, obj) ==
  IF n > Len(keys) THEN obj
  ELSE FillObj(keys, row, n + 1, ObjSet(obj, keys[n], CellOr(row, n)))

RowToObj_KeepExtra(keys, row) ==
  FillObj([i \in 1..Max(Len(keys), Len(row)) |->
             IF i <= Len(keys) THEN keys[i] ELSE ColName(i)], row, 1, << >>)

\* body.map((row) => { const obj = {}; ...; return obj; }) for one row
RowToObj(keys, row) == FillObj(keys, row, 1, << >>)

RECURSIVE MaxRowLen(_)
MaxRowLen(rows) ==
  IF Len(rows) = 0 THEN 0 ELSE Max(Len(Head(rows)), MaxRowLen(Tail(rows)))

Headers(rows) == [i \in 1..Len(rows[1]) |-> Trim(rows[1][i])]
HasHeaders(headers) == \E i \in 1..Len(headers) : Len(headers[i]) > 0

\* h || `Col${i + 1}`
HeaderKeys(headers) ==
  [i \in 1..Len(headers) |-> IF Len(headers[i]) > 0 THEN headers[i] ELSE ColName(i)]
GenHeaders(rows) == [i \in 1..MaxRowLen(rows) |-> ColName(i)]

\* the rows the records are built from: rows.slice(1) in both branches
Body_AllRows(rows) == rows

Body(rows) == Tail(rows)

\* the part of readSheetToJson after the fetch: res.data.values -> result
Normalize(tabName, rows) ==
  IF Len(rows) = 0 THEN [tab |-> tabName, headers |-> << >>, rows |-> << >>]
  ELSE LET headers == Headers(rows)
           body == Body(rows)
           keys == IF HasHeaders(headers) THEN HeaderKeys(headers)
                   ELSE GenHeaders(rows)
       IN [tab |-> tabName, headers |-> headers,
           rows |-> [r \in 1..Len(body) |-> RowToObj(keys, body[r])]]

(* --------------------- inputs the model draws from -------------------- *)
\* grids for the normalizer: no rows, or a first row and up to MaxBodyRows more,
\* each of up to MaxCols cells (rows may be ragged)
HeaderCells == { << >>, <<" ">>, <<"a">>, <<" ", "a">>, ColName(2) }
BodyCells == { <<"a">>, <<" ", "a">> }
\* row 0 of a grid, and the rows after it
HeaderRows == SeqsUpTo(HeaderCells, MaxCols)
Bodies == SeqsUpTo(SeqsUpTo(BodyCells, MaxCols), MaxBodyRows)

\* what the upstream spreadsheet may answer: sheet titles (a falsy title is ""),
\* and the values of a tab
TabNames == {"A", "B"}
ReqTabs == {"A", "Z"}
UpTitles == {<<"", "A", "B">>, <<"A", "B">>}
UpGrids == { << >>, << <<<<"a">>>>, <<<<"a">>, <<" ">>>> >> }

\* tab names for the key function alone: up to MaxNameLen pieces, the
\* separator and the other parts of a key among them, written one after another
NamePieces == {"A", "|", "data", "tabs", SHEET_ID}
RECURSIVE Concat(_)
Concat(pieces) ==
  IF Len(pieces) = 0 THEN "" ELSE Head(pieces) \o Concat(Tail(pieces))
KeyNames == {Concat(q) : q \in SeqsUpTo(NamePieces, MaxNameLen)}
\* the argument of cacheKey at line 117 and at line 140
KeyParts == {<<"tabs", SHEET_ID>>} \cup {<<"data", SHEET_ID, t>> : t \in KeyNames}

\* the requests in flight at once
Reqs == {1, 2}

(* ------------------- history kept beside the program ------------------ *)
\* lastOp: the getCache/setCache call made by the step just taken (NoOp when
\*   the step made none), with the cache it found and, for a setCache, the
\*   upstream answer (up) the stored value was made of.
\* lastSet[key]: the time of the most recent setCache(key, ...) call.
\* listed: the tab names of the lists listSheetTabs has returned so far.
\* removed[p]: the loader call request p is waiting in deleted an entry when
\*   it read the cache (and has written none since).
\* fetches[p]: the upstream requests the loader call request p is in (or has
\*   just returned from) has sent.
\* lastResp: the HTTP response sent by the step just taken (NoResp when the
\*   step sent none), with the sender's route and tab, the tab it last passed
\*   to readSheetToJson ("" if it never called it), its removed[p] and its
\*   fetches[p].
NoOp == [op |-> "none"]
NoResp == [status |-> 0]

GetOp(p, key, g) ==
  [op |-> "get", by |-> p, key |-> key, before |-> cache, ret |-> g.ret]
SetOp(p, key, data, up) ==
  [op |-> "set", by |-> p, key |-> key, before |-> cache, ret |-> Some(data),
   up |-> up]
RecordSet(key) ==
  [k \in DOMAIN lastSet \cup {key} |-> IF k = key THEN now ELSE lastSet[k]]

(* ------------------------------- Init --------------------------------- *)
Init ==
  /\ now = 0
  /\ cache = << >>
  /\ pc = [p \in Reqs |-> "idle"]
  /\ route = [p \in Reqs |-> "none"]
  /\ reqTab = [p \in Reqs |-> ""]
  /\ tabs = [p \in Reqs |-> << >>]
  /\ idx = [p \in Reqs |-> 0]
  /\ cur = [p \in Reqs |-> ""]
  /\ table = [p \in Reqs |-> None]
  /\ payload = [p \in Reqs |-> << >>]
  /\ removed = [p \in Reqs |-> FALSE]
  /\ fetches = [p \in Reqs |-> 0]
  /\ lastOp = NoOp
  /\ lastSet = << >>
  /\ listed = {}
  /\ lastResp = NoResp
  /\ nGrid = << >>
  /\ nOut = None
  /\ kParts = << >>
  /\ kOut = None

\* res.status(st).json(...) ends request p: its locals are gone
Respond(p, st) ==
  /\ lastResp' = [status |-> st, by |-> p, route |-> route[p], tab |-> reqTab[p],
                  read |-> cur[p], removed |-> removed[p],
                  fetches |-> fetches[p]]
  /\ pc' = [pc EXCEPT ![p] = "idle"]
  /\ route' = [route EXCEPT ![p] = "none"]
  /\ reqTab' = [reqTab EXCEPT ![p] = ""]
  /\ tabs' = [tabs EXCEPT ![p] = << >>]
  /\ idx' = [idx EXCEPT ![p] = 0]
  /\ cur' = [cur EXCEPT ![p] = ""]
  /\ table' = [table EXCEPT ![p] = None]
  /\ payload' = [payload EXCEPT ![p] = << >>]
  /\ removed' = [removed EXCEPT ![p] = FALSE]
  /\ fetches' = [fetches EXCEPT ![p] = 0]

(* --------------- listSheetTabs: server.js 116-132 --------------------- *)
\* lines 117-119, up to the first await: key, getCache, "if (cached) return"
\* (a cached list is an array, which is truthy even when empty)
ListSheetTabsCall(p) ==
  LET g == GetCache(cache, TabsKey, now) IN
  /\ cache' = g.cache
  /\ lastOp' = GetOp(p, TabsKey, g)
  /\ removed' = [removed EXCEPT ![p] = (g.cache # cache)]
  /\ fetches' = [fetches EXCEPT ![p] = IF g.ret # None THEN 0 ELSE 1]
  /\ IF g.ret # None
     THEN /\ tabs' = [tabs EXCEPT ![p] = g.ret[1]]
          /\ pc' = [pc EXCEPT ![p] = "tabsRet"]
     ELSE /\ tabs' = tabs
          /\ pc' = [pc EXCEPT ![p] = "tabsFetch"]
  /\ listed' = IF g.ret # None THEN listed \cup Elems(g.ret[1]) ELSE listed
  /\ UNCHANGED lastSet

FilterTitles_Keep(titles) == titles

\* meta.data.sheets?.map((s) => s.properties?.title).filter(Boolean) || []
FilterTitles(titles) == SelectSeq(titles, LAMBDA t : t # "")

\* lines 121-131: the metadata request resolved with `titles`
TabsFetchOk(p, titles) ==
  /\ pc[p] = "tabsFetch"
  /\ LET list == FilterTitles(titles) IN
     /\ cache' = SetCache(cache, TabsKey, list, now)
     /\ lastOp' = SetOp(p, TabsKey, list, titles)
     /\ tabs' = [tabs EXCEPT ![p] = list]
     /\ listed' = listed \cup Elems(list)
  /\ lastSet' = RecordSet(TabsKey)
  /\ pc' = [pc EXCEPT ![p] = "tabsRet"]
  /\ removed' = [removed EXCEPT ![p] = FALSE]
  /\ lastResp' = NoResp
  /\ UNCHANGED fetches
  /\ UNCHANGED <<now, route, reqTab, idx, cur, table, payload, normVars, keyVars>>

FetchFail_Retry(p) ==
  IF fetches[p] < 2
  THEN /\ fetches' = [fetches EXCEPT ![p] = 2]
       /\ lastOp' = NoOp
       /\ lastResp' = NoResp
       /\ UNCHANGED <<now, cacheVars, normVars, keyVars, pc, route, reqTab,
                      tabs, idx, cur, table, payload, removed>>
  ELSE /\ Respond(p, 500)
       /\ lastOp' = NoOp
       /\ UNCHANGED <<now, cacheVars, normVars, keyVars>>

FetchFail_Negative(p) ==
  /\ Respond(p, 500)
  /\ lastOp' = NoOp
  /\ cache' = SetCache(cache, TabsKey, << >>, now)
  /\ UNCHANGED <<now, lastSet, listed, normVars, keyVars>>

\* a loader's upstream request (lines 121-125, 144-149) rejected: nothing
\* after the await runs and the route's catch answers 500 (lines 206-208,
\* 231-233, 251-253)
FetchFail(p) ==
  /\ Respond(p, 500)
  /\ lastOp' = NoOp
  /\ UNCHANGED <<now, cacheVars, normVars, keyVars>>

TabsFetchFail(p) ==
  /\ pc[p] = "tabsFetch"
  /\ FetchFail(p)

(* --------------- readSheetToJson: server.js 139-189 ------------------- *)
\* lines 140-142, up to the first await (a cached table is an object: truthy)
ReadSheetCall(p, tabName) ==
  LET key == DataKey(tabName)
      g == GetCache(cache, key, now) IN
  /\ cache' = g.cache
  /\ lastOp' = GetOp(p, key, g)
  /\ removed' = [removed EXCEPT ![p] = (g.cache # cache)]
  /\ fetches' = [fetches EXCEPT ![p] = IF g.ret # None THEN 0 ELSE 1]
  /\ cur' = [cur EXCEPT ![p] = tabName]
  /\ IF g.ret # None
     THEN /\ table' = [table EXCEPT ![p] = g.ret]
          /\ pc' = [pc EXCEPT ![p] = "dataRet"]
     ELSE /\ table' = [table EXCEPT ![p] = None]
          /\ pc' = [pc EXCEPT ![p] = "gridFetch"]
  /\ UNCHANGED <<lastSet, listed>>

GridFetchOk_SkipEmpty(p, grid) ==
  /\ pc[p] = "gridFetch"
  /\ LET key == DataKey(cur[p])
         result == Normalize(cur[p], grid) IN
     /\ cache' = IF Len(grid) = 0 THEN cache ELSE SetCache(cache, key, result, now)
     /\ lastOp' = IF Len(grid) = 0 THEN NoOp ELSE SetOp(p, key, result, grid)
     /\ lastSet' = IF Len(grid) = 0 THEN lastSet ELSE RecordSet(key)
     /\ table' = [table EXCEPT ![p] = Some(result)]
  /\ pc' = [pc EXCEPT ![p] = "dataRet"]
  /\ removed' = [removed EXCEPT ![p] = FALSE]
  /\ lastResp' = NoResp
  /\ UNCHANGED <<fetches, listed>>
  /\ UNCHANGED <<now, route, reqTab, tabs, idx, cur, payload, normVars, keyVars>>

\* lines 144-188: the values request resolved with `grid`
GridFetchOk(p, grid) ==
  /\ pc[p] = "gridFetch"
  /\ LET key == DataKey(cur[p])
         result == Normalize(cur[p], grid) IN
     /\ cache' = SetCache(cache, key, result, now)
     /\ lastOp' = SetOp(p, key, result, grid)
     /\ lastSet' = RecordSet(key)
     /\ table' = [table EXCEPT ![p] = Some(result)]
  /\ pc' = [pc EXCEPT ![p] = "dataRet"]
  /\ removed' = [removed EXCEPT ![p] = FALSE]
  /\ lastResp' = NoResp
  /\ UNCHANGED <<fetches, listed>>
  /\ UNCHANGED <<now, route, reqTab, tabs, idx, cur, payload, normVars, keyVars>>

GridFetchFail(p) ==
  /\ pc[p] = "gridFetch"
  /\ FetchFail(p)

(* ------------------------ routes: server.js 197-255 ------------------- *)
\* the common entry of the three handlers: the SHEET_ID check, then
\* `await listSheetTabs()`
HandlerEntry(p, r, t) ==
  /\ pc[p] = "idle"
  /\ IF SHEET_ID = ""
     THEN /\ Respond(p, 400)
          /\ lastOp' = NoOp
          /\ UNCHANGED cacheVars
     ELSE /\ route' = [route EXCEPT ![p] = r]
          /\ reqTab' = [reqTab EXCEPT ![p] = t]
          /\ ListSheetTabsCall(p)
          /\ lastResp' = NoResp
          /\ UNCHANGED <<idx, cur, table, payload>>
  /\ UNCHANGED <<now, normVars, keyVars>>

\* GET /api/sheets, lines 197-204
GetSheets(p) == HandlerEntry(p, "sheets", "")
\* GET /api/data/:tab, lines 213-221
GetData(p, t) == HandlerEntry(p, "data", t)
\* GET /api/data-all, lines 238-245
GetDataAll(p) == HandlerEntry(p, "dataAll", "")

Includes_Always(list, t) == TRUE

Includes_NonEmpty(list, t) == Len(list) > 0

\* tabs.includes(tab)
Includes(list, t) == \E i \in 1..Len(list) : list[i] = t

\* line 205
SheetsRespond(p) ==
  /\ pc[p] = "tabsRet" /\ route[p] = "sheets"
  /\ Respond(p, 200)
  /\ lastOp' = NoOp
  /\ UNCHANGED <<now, cacheVars, normVars, keyVars>>

\* lines 222-229
DataAfterTabs(p) ==
  /\ pc[p] = "tabsRet" /\ route[p] = "data"
  /\ IF ~Includes(tabs[p], reqTab[p])
     THEN /\ Respond(p, 404)
          /\ lastOp' = NoOp
          /\ UNCHANGED cacheVars
     ELSE /\ ReadSheetCall(p, reqTab[p])
          /\ lastResp' = NoResp
          /\ tabs' = [tabs EXCEPT ![p] = << >>]   \* not read again on this path
          /\ UNCHANGED <<route, reqTab, idx, payload>>
  /\ UNCHANGED <<now, normVars, keyVars>>

\* line 230
DataRespond(p) ==
  /\ pc[p] = "dataRet" /\ route[p] = "data"
  /\ Respond(p, 200)
  /\ lastOp' = NoOp
  /\ UNCHANGED <<now, cacheVars, normVars, keyVars>>

\* lines 247-250: the loop with `done` tabs read and payload `pl`
DataAllLoop(p, done, pl) ==
  IF done >= Len(tabs[p])
  THEN /\ Respond(p, 200)
       /\ lastOp' = NoOp
       /\ UNCHANGED cacheVars
  ELSE /\ idx' = [idx EXCEPT ![p] = done + 1]
       /\ payload' = [payload EXCEPT ![p] = pl]
       /\ ReadSheetCall(p, tabs[p][done + 1])
       /\ lastResp' = NoResp
       /\ UNCHANGED <<route, reqTab, tabs>>

\* lines 246-247: payload = {}, the first iteration
DataAllAfterTabs(p) ==
  /\ pc[p] = "tabsRet" /\ route[p] = "dataAll"
  /\ DataAllLoop(p, 0, << >>)
  /\ UNCHANGED <<now, normVars, keyVars>>

\* line 248: payload[t] = (the awaited table), then the next iteration
DataAllAfterRead(p) ==
  /\ pc[p] = "dataRet" /\ route[p] = "dataAll"
  /\ DataAllLoop(p, idx[p], ObjSet(payload[p], cur[p], table[p][1]))
  /\ UNCHANGED <<now, normVars, keyVars>>

\* Date.now() advances
Tick ==
  /\ now < MaxTime
  /\ now' = now + 1
  /\ lastOp' = NoOp
  /\ lastResp' = NoResp
  /\ UNCHANGED <<cacheVars, reqVars, normVars, keyVars>>

Next ==
  \/ Tick
  \/ \E p \in Reqs : GetSheets(p)
  \/ \E p \in Reqs, t \in ReqTabs : GetData(p, t)
  \/ \E p \in Reqs : GetDataAll(p)
  \/ \E p \in Reqs, titles \in UpTitles : TabsFetchOk(p, titles)
  \/ \E p \in Reqs : TabsFetchFail(p)
  \/ \E p \in Reqs : SheetsRespond(p)
  \/ \E p \in Reqs : DataAfterTabs(p)
  \/ \E p \in Reqs, grid \in UpGrids : GridFetchOk(p, grid)
  \/ \E p \in Reqs : GridFetchFail(p)
  \/ \E p \in Reqs : DataRespond(p)
  \/ \E p \in Reqs : DataAllAfterTabs(p)
  \/ \E p \in Reqs : DataAllAfterRead(p)

Spec == Init /\ [][Next]_vars

(* --------- the normalizer alone, on every grid within the bounds ------- *)
InitNorm ==
  /\ now = 0
  /\ cache = << >>
  /\ pc = [p \in Reqs |-> "idle"]
  /\ route = [p \in Reqs |-> "none"]
  /\ reqTab = [p \in Reqs |-> ""]
  /\ tabs = [p \in Reqs |-> << >>]
  /\ idx = [p \in Reqs |-> 0]
  /\ cur = [p \in Reqs |-> ""]
  /\ table = [p \in Reqs |-> None]
  /\ payload = [p \in Reqs |-> << >>]
  /\ removed = [p \in Reqs |-> FALSE]
  /\ fetches = [p \in Reqs |-> 0]
  /\ lastOp = NoOp
  /\ lastSet = << >>
  /\ listed = {}
  /\ lastResp = NoResp
  /\ \/ nGrid = << >>
     \/ \E h \in HeaderRows, b \in Bodies : nGrid = <<h>> \o b
  /\ nOut = None
  /\ kParts = << >>
  /\ kOut = None

\* res.data.values = nGrid arrives for tab t and is normalized
NormStep(t) ==
  /\ nOut = None
  /\ nOut' = Some(Normalize(t, nGrid))
  /\ UNCHANGED <<now, cacheVars, lastOp, lastResp, reqVars, nGrid, keyVars>>

NextNorm == \E t \in TabNames : NormStep(t)

SpecNorm == InitNorm /\ [][NextNorm]_vars

(* ------- cacheKey alone, on every two requests within the bounds ------ *)
InitKey ==
  /\ now = 0
  /\ cache = << >>
  /\ pc = [p \in Reqs |-> "idle"]
  /\ route = [p \in Reqs |-> "none"]
  /\ reqTab = [p \in Reqs |-> ""]
  /\ tabs = [p \in Reqs |-> << >>]
  /\ idx = [p \in Reqs |-> 0]
  /\ cur = [p \in Reqs |-> ""]
  /\ table = [p \in Reqs |-> None]
  /\ payload = [p \in Reqs |-> << >>]
  /\ removed = [p \in Reqs |-> FALSE]
  /\ fetches = [p \in Reqs |-> 0]
  /\ lastOp = NoOp
  /\ lastSet = << >>
  /\ listed = {}
  /\ lastResp = NoResp
  /\ nGrid = << >>
  /\ nOut = None
  /\ kParts \in KeyParts \X KeyParts
  /\ kOut = None

\* the keys of the two requests are computed
KeyStep ==
  /\ kOut = None
  /\ kOut' = Some(<<cacheKey(kParts[1]), cacheKey(kParts[2])>>)
  /\ UNCHANGED <<now, cacheVars, lastOp, lastResp, reqVars, normVars, kParts>>

NextKey == KeyStep

SpecKey == InitKey /\ [][NextKey]_vars

(***************************************************************************)
(*                               Properties                                *)
(***************************************************************************)
TTL == CACHE_TTL_MS
IsGet == lastOp.op = "get"
IsSet == lastOp.op = "set"
\* the entry the cache call of the last step found under its key
Found == lastOp.key \in DOMAIN lastOp.before
Old == lastOp.before[lastOp.key]
\* the last setCache of the key was at most TTL ago
Fresh(key) == key \in DOMAIN lastSet /\ now <= lastSet[key] + TTL
\* request p is inside readSheetToJson
InRead(p) == pc[p] \in {"gridFetch", "dataRet"}

\* C1: a getCache(key) that finds an entry with expiresAt < now returns null
\* and leaves the cache without that entry; its caller goes on to fetch.
C1_ExpiredReadIsMiss ==
  (IsGet /\ Found /\ Old.expiresAt < now) =>
     /\ lastOp.ret = None
     /\ lastOp.key \notin DOMAIN cache
     /\ removed[lastOp.by]
     /\ pc[lastOp.by] \in {"tabsFetch", "gridFetch"}

C1_Witness == IsGet /\ Found /\ Old.expiresAt < now

\* C2: a readSheetToJson(X) call that starts at most TTL after the last
\* setCache of X's key (i.e. after an earlier call returned, within the TTL
\* window) finds that entry and returns it without an upstream fetch; a call
\* that starts when the key was never set, or later than TTL after its last
\* set, misses and goes to the upstream fetch (one per call: the fetch is what
\* the "gridFetch" position awaits), after which it writes the cache.
C2_FetchOncePerTtlWindow ==
  /\ \A t \in TabNames :
       Fresh(DataKey(t)) =>
          /\ DataKey(t) \in DOMAIN cache
          /\ cache[DataKey(t)].expiresAt = lastSet[DataKey(t)] + TTL
  /\ (IsGet /\ InRead(lastOp.by)) =>
       /\ lastOp.key = DataKey(cur[lastOp.by])
       /\ IF Fresh(lastOp.key)
          THEN /\ pc[lastOp.by] = "dataRet" /\ fetches[lastOp.by] = 0
               /\ Found /\ table[lastOp.by] = Some(Old.data)
               /\ cache = lastOp.before
          ELSE /\ pc[lastOp.by] = "gridFetch" /\ fetches[lastOp.by] = 1
               /\ lastOp.ret = None /\ table[lastOp.by] = None
  /\ (IsSet /\ InRead(lastOp.by)) =>
       /\ pc[lastOp.by] = "dataRet" /\ fetches[lastOp.by] = 1
       /\ lastSet[lastOp.key] = now
  /\ \A p \in Reqs :
       /\ fetches[p] \in {0, 1}
       /\ pc[p] = "gridFetch" => fetches[p] = 1
  /\ lastResp.status \in {200, 500} => lastResp.fetches \in {0, 1}

\* the third call: the key was set before, more than TTL ago, and the call
\* that has just read the cache is fetching again
C2_Witness ==
  /\ IsGet /\ pc[lastOp.by] = "gridFetch" /\ lastOp.key = DataKey("A")
  /\ DataKey("A") \in DOMAIN lastSet
  /\ now > lastSet[DataKey("A")] + TTL

(* ---- the normalizer's claims, on nGrid and the table nOut[1] made of it *)
\* a cell is empty after trimming iff it holds nothing but spaces
Blank(cell) == \A j \in 1..Len(cell) : cell[j] = " "
Row0Blank == \A i \in 1..Len(nGrid[1]) : Blank(nGrid[1][i])
\* the longest row of the whole grid
WidestRow ==
  CHOOSE n \in 0..(MaxCols + 1) :
     /\ \A r \in 1..Len(nGrid) : Len(nGrid[r]) <= n
     /\ \E r \in 1..Len(nGrid) : Len(nGrid[r]) = n
\* the record Col1..ColN of one grid row
ColRecord(row, n) ==
  [i \in 1..n |-> <<ColName(i), IF i <= Len(row) THEN row[i] ELSE << >> >>]
Normalized == nOut # None /\ Len(nGrid) > 0

\* C3 as stated: with row 0 all blank, every grid row, row 0 included, becomes
\* a record Col1..ColN, so there are as many records as grid rows.
C3_AsStated ==
  (Normalized /\ Row0Blank) =>
     /\ Len(nOut[1].rows) = Len(nGrid)
     /\ \A r \in 1..Len(nGrid) :
          nOut[1].rows[r] = ColRecord(nGrid[r], WidestRow)

\* C3 amended: with row 0 all blank, N is the longest row of the whole grid
\* (row 0 included) and every row after row 0 becomes, in order, a record
\* Col1..ColN; row 0 yields no record, so there is one record fewer than rows.
C3_BlankHeaderMapsBody ==
  (Normalized /\ Row0Blank) =>
     /\ Len(nOut[1].rows) = Len(nGrid) - 1
     /\ \A r \in 1..(Len(nGrid) - 1) :
          nOut[1].rows[r] = ColRecord(nGrid[r + 1], WidestRow)

\* a blank first row that is the widest, with a whitespace-only cell, and a
\* shorter row after it
C3_Witness ==
  /\ Normalized /\ Row0Blank
  /\ Len(nGrid) >= 2
  /\ \E i \in 1..Len(nGrid[1]) : Len(nGrid[1][i]) > 0
  /\ Len(nGrid[1]) = WidestRow
  /\ 0 < Len(nGrid[2]) /\ Len(nGrid[2]) < WidestRow

\* the key of header position i: the trimmed header, or Col<i> when blank
\* (the trimmed header is what is left of the cell between its outer spaces)
TrimmedIs(cell, h) ==
  \E a \in 0..Len(cell), b \in 0..Len(cell) :
     /\ a + Len(h) + b = Len(cell)
     /\ \A j \in 1..a : cell[j] = " "
     /\ \A j \in 1..b : cell[Len(cell) + 1 - j] = " "
     /\ h = SubSeq(cell, a + 1, a + Len(h))
     /\ (Len(h) > 0 => h[1] # " " /\ h[Len(h)] # " ")
KeyAt(i) == IF Blank(nGrid[1][i]) THEN ColName(i) ELSE nOut[1].headers[i]

\* C4 as stated: with a non-blank cell in row 0, the headers are the trimmed
\* row 0 and there is one record per later row, in order, that maps, for each
\* header position i, the key of i to row[i] (or "" when the row is shorter).
C4_AsStated ==
  (Normalized /\ ~Row0Blank) =>
     /\ Len(nOut[1].headers) = Len(nGrid[1])
     /\ \A i \in 1..Len(nGrid[1]) : TrimmedIs(nGrid[1][i], nOut[1].headers[i])
     /\ Len(nOut[1].rows) = Len(nGrid) - 1
     /\ \A r \in 1..(Len(nGrid) - 1), i \in 1..Len(nGrid[1]) :
          /\ ObjHas(nOut[1].rows[r], KeyAt(i))
          /\ ObjGet(nOut[1].rows[r], KeyAt(i)) = CellOr(nGrid[r + 1], i)

(* ---------------------------------------------------------------------- *)
\* C5 as stated: when a loader's upstream fetch fails the caller gets the
\* error and the call has neither added, overwritten nor removed an entry.
C5_AsStated ==
  lastResp.status = 500 => ~lastResp.removed

\* C5 amended: when a loader's upstream fetch fails the caller gets the error
\* (500) and the call has written nothing: the failing step leaves the cache
\* as it is, and the one change the call may have made is its initial getCache
\* deleting the entry of its own key, which had already expired.
C5_FailureWritesNothing ==
  /\ []((IsGet /\ cache # lastOp.before) =>
          /\ Found /\ Old.expiresAt < now
          /\ removed[lastOp.by]
          /\ cache = [k \in DOMAIN lastOp.before \ {lastOp.key} |-> lastOp.before[k]])
  /\ [](\A p \in Reqs : removed[p] => pc[p] \in {"tabsFetch", "gridFetch"})
  /\ [][lastResp'.status = 500 =>
          /\ cache' = cache /\ lastSet' = lastSet /\ lastOp' = NoOp
          /\ lastResp'.fetches = 1
          /\ pc[lastResp'.by] \in {"tabsFetch", "gridFetch"}]_vars

C5_Witness ==
  lastResp.status = 500 /\ lastResp.removed

\* C6: a GET /api/data/:tab whose tab is not in the list its listSheetTabs()
\* returned ends with 404 at once: the step answers 404 without touching the
\* cache, and the request never called readSheetToJson (no grid fetch, no data
\* entry written by it).
C6_UnknownTabIs404 ==
  /\ [](lastResp.status = 404 =>
          /\ lastResp.route = "data"
          /\ lastResp.read = ""
          /\ lastResp.fetches <= 1
          /\ lastOp = NoOp
          /\ DataKey(lastResp.tab) \notin DOMAIN cache)
  /\ [][\A p \in Reqs :
          (/\ pc[p] = "tabsRet" /\ route[p] = "data"
           /\ \A i \in 1..Len(tabs[p]) : tabs[p][i] # reqTab[p]
           /\ pc'[p] # "tabsRet")
          => /\ lastResp'.status = 404 /\ lastResp'.by = p
             /\ cache' = cache /\ pc'[p] = "idle"]_vars

C6_Witness ==
  lastResp.status = 404 /\ lastResp.tab = "Z" /\ DataKey("A") \in DOMAIN cache

\* C7: misses on one key are not deduplicated: a readSheetToJson call that
\* missed goes to its own upstream fetch, also while another call for the
\* same tab is at its fetch, and each of them writes the cache with its own
\* result, replacing whatever the other stored (the last write wins).
C7_ConcurrentMissesBothWrite ==
  /\ (IsGet /\ InRead(lastOp.by) /\ lastOp.ret = None) =>
        pc[lastOp.by] = "gridFetch" /\ fetches[lastOp.by] = 1
  /\ (IsSet /\ InRead(lastOp.by)) =>
       /\ table[lastOp.by] = lastOp.ret
       /\ lastOp.key = DataKey(cur[lastOp.by])
       /\ cache[lastOp.key].data = table[lastOp.by][1]

\* p writes over the live entry that q, whose fetch for the same tab ran at
\* the same time, wrote a moment ago
C7_Witness ==
  \E p \in Reqs, q \in Reqs :
     /\ p # q /\ IsSet /\ lastOp.by = p /\ lastOp.key = DataKey("A")
     /\ Found /\ Old.expiresAt = now + TTL /\ Old.data # lastOp.ret[1]
     /\ pc[q] = "dataRet" /\ cur[q] = "A" /\ table[q] = Some(Old.data)
     /\ fetches[q] = 1 /\ fetches[p] = 1

\* C8: setCache(key, value) replaces whatever entry the key had, expired or
\* not, by value with expiry now + TTL, and a getCache(key) at any time up to
\* that expiry returns value.
C8_SetOverwrites ==
  IsSet =>
     /\ DOMAIN cache = DOMAIN lastOp.before \cup {lastOp.key}
     /\ cache[lastOp.key] = [expiresAt |-> now + TTL, data |-> lastOp.ret[1]]
     /\ \A t \in now..(now + TTL) :
          GetCache(cache, lastOp.key, t).ret = lastOp.ret

\* the set replaces an expired entry that was still in the cache
C8_Witness ==
  IsSet /\ Found /\ Old.expiresAt < now /\ Old.data # lastOp.ret[1]

\* C9: a getCache(key) at now <= expiresAt, equality included, returns the
\* stored value and leaves the whole cache as it was.
C9_LiveReadIsPure ==
  (IsGet /\ Found /\ now <= Old.expiresAt) =>
     /\ lastOp.ret = Some(Old.data)
     /\ cache = lastOp.before

\* a read exactly at the expiry time, with other entries in the cache
C9_Witness ==
  /\ IsGet /\ Found /\ now = Old.expiresAt
  /\ Cardinality(DOMAIN lastOp.before) >= 2

\* C10: the key of a tuple depends on the tuple alone: tuples (operation,
\* source id, tab name) that differ get different keys, in particular two that
\* differ in the tab name only, so in every state the entry under the key of
\* ("data", SHEET_ID, t) is a table of tab t, and a readSheetToJson(t) call
\* reads and writes under that key.
KeyTabs == {"A", "B", "Z", "Tab A", "Tab B"}
KeyTuples == {<<"tabs", SHEET_ID>>} \cup {<<"data", SHEET_ID, t>> : t \in KeyTabs}
KeysDistinct ==
  \A x \in KeyTuples, y \in KeyTuples : (cacheKey(x) = cacheKey(y)) <=> (x = y)
C10_KeyIsFunctionOfParts ==
  /\ KeysDistinct
  /\ \A t \in TabNames :
        cacheKey(<<"data", SHEET_ID, t>>) \in DOMAIN cache
          => cache[cacheKey(<<"data", SHEET_ID, t>>)].data.tab = t
  /\ ((IsGet \/ IsSet) /\ InRead(lastOp.by))
        => lastOp.key = cacheKey(<<"data", SHEET_ID, cur[lastOp.by]>>)

C10_Witness ==
  /\ IsSet /\ InRead(lastOp.by)
  /\ cacheKey(<<"data", SHEET_ID, "A">>) \in DOMAIN cache
  /\ cacheKey(<<"data", SHEET_ID, "B">>) \in DOMAIN cache
  /\ cacheKey(<<"tabs", SHEET_ID>>) \in DOMAIN cache

(* ---------------------------------------------------------------------- *)
\* C11: every record of a normalized table has, for every header position i,
\* a field under the key of i whose value is a string, never undefined; when
\* the upstream row has no cell at i (a ragged, shorter row) that value is the
\* empty string.
C11_EveryPositionDefined ==
  Normalized =>
     \A r \in 1..Len(nOut[1].rows), i \in 1..Len(nOut[1].headers) :
        /\ ObjHas(nOut[1].rows[r], KeyAt(i))
        /\ ObjGet(nOut[1].rows[r], KeyAt(i)) # Undefined
        /\ i > Len(nGrid[r + 1]) => ObjGet(nOut[1].rows[r], KeyAt(i)) = << >>

\* a header row of two named columns and a row after it with one cell only
C11_Witness ==
  /\ Normalized /\ Len(nGrid) >= 2
  /\ Len(nGrid[1]) = 2 /\ ~Blank(nGrid[1][1]) /\ ~Blank(nGrid[1][2])
  /\ Len(nGrid[2]) = 1
  /\ ObjGet(nOut[1].rows[1], KeyAt(2)) = << >>

\* request p is inside listSheetTabs
InList(p) == pc[p] \in {"tabsFetch", "tabsRet"}
\* list is what is left of up, in order, when its "" entries are taken out
Kept(list, up) ==
  /\ \A i \in 1..Len(list) : list[i] # ""
  /\ \E f \in [1..Len(list) -> 1..Len(up)] :
       /\ \A i \in 1..Len(list) : up[f[i]] = list[i]
       /\ \A i \in 1..Len(list), j \in 1..Len(list) : i < j => f[i] < f[j]
       /\ \A k \in 1..Len(up) :
            (\A i \in 1..Len(list) : f[i] # k) => up[k] = ""

\* C12: a listSheetTabs call that misses goes to one upstream fetch and, when
\* it resolves, returns the upstream titles with the falsy ones removed, in
\* upstream order, and stores that list under the key of ["tabs", SHEET_ID]
\* with expiry now + CACHE_TTL_MS; a call that hits returns the cached list
\* and sends no upstream request.
C12_ListFiltersAndCaches ==
  /\ (IsSet /\ InList(lastOp.by)) =>
       /\ lastOp.key = cacheKey(<<"tabs", SHEET_ID>>)
       /\ Kept(lastOp.ret[1], lastOp.up)
       /\ cache[lastOp.key] =
            [expiresAt |-> now + CACHE_TTL_MS, data |-> lastOp.ret[1]]
       /\ pc[lastOp.by] = "tabsRet" /\ tabs[lastOp.by] = lastOp.ret[1]
       /\ fetches[lastOp.by] = 1
  /\ (IsGet /\ InList(lastOp.by)) =>
       /\ lastOp.key = cacheKey(<<"tabs", SHEET_ID>>)
       /\ IF lastOp.ret # None
          THEN /\ pc[lastOp.by] = "tabsRet" /\ fetches[lastOp.by] = 0
               /\ Found /\ lastOp.ret = Some(Old.data)
               /\ tabs[lastOp.by] = Old.data
               /\ cache = lastOp.before
          ELSE pc[lastOp.by] = "tabsFetch" /\ fetches[lastOp.by] = 1

\* the upstream list had a falsy title, which the stored list has not
C12_Witness ==
  /\ IsSet /\ InList(lastOp.by)
  /\ Len(lastOp.up) = 3 /\ lastOp.up[1] = ""
  /\ cache[TabsKey].data = <<"A", "B">>

\* the table of a tab whose grid has no rows
EmptyTable(t) == [tab |-> t, headers |-> << >>, rows |-> << >>]

\* C13: when the upstream grid has no rows, readSheetToJson(t) returns
\* {tab: t, headers: [], rows: []} and stores it under t's key with expiry
\* now + CACHE_TTL_MS; a later call for t up to that expiry gets the cached
\* empty table back and sends no upstream request.
C13_EmptyGridIsCached ==
  /\ []((IsSet /\ InRead(lastOp.by) /\ Len(lastOp.up) = 0) =>
          lastOp.ret = Some(EmptyTable(cur[lastOp.by])))
  /\ [][\A p \in Reqs :
          (/\ pc[p] = "gridFetch" /\ pc'[p] = "dataRet"
           /\ table'[p] = Some(EmptyTable(cur[p])))
          => /\ DataKey(cur[p]) \in DOMAIN cache'
             /\ cache'[DataKey(cur[p])] =
                  [expiresAt |-> now + CACHE_TTL_MS, data |-> EmptyTable(cur[p])]]_vars
  /\ []((/\ IsGet /\ InRead(lastOp.by) /\ Found
         /\ Old.data = EmptyTable(cur[lastOp.by]) /\ now <= Old.expiresAt)
        => /\ lastOp.ret = Some(Old.data) /\ table[lastOp.by] = Some(Old.data)
           /\ pc[lastOp.by] = "dataRet" /\ fetches[lastOp.by] = 0
           /\ cache = lastOp.before)

\* the second call, at the expiry time of the empty table the first one stored
C13_Witness ==
  /\ IsGet /\ InRead(lastOp.by) /\ Found
  /\ Old.data = EmptyTable("A") /\ now = Old.expiresAt /\ now > 0
  /\ table[lastOp.by] = Some(EmptyTable("A")) /\ fetches[lastOp.by] = 0

\* C14: every entry in the cache, a tab list or a table alike, has expiresAt
\* equal to the time of the setCache call that wrote it (the last one for its
\* key) plus CACHE_TTL_MS.
C14_UniformTtl ==
  /\ \A k \in DOMAIN cache :
       /\ k \in DOMAIN lastSet
       /\ cache[k].expiresAt = lastSet[k] + CACHE_TTL_MS
  /\ IsSet => /\ lastSet[lastOp.key] = now
              /\ cache[lastOp.key].expiresAt = now + CACHE_TTL_MS

\* a tab list and a table written at different times are both in the cache
C14_Witness ==
  /\ TabsKey \in DOMAIN cache /\ DataKey("A") \in DOMAIN cache
  /\ lastSet[TabsKey] = 0 /\ lastSet[DataKey("A")] = 2
  /\ cache[TabsKey].expiresAt = CACHE_TTL_MS
  /\ cache[DataKey("A")].expiresAt = 2 + CACHE_TTL_MS

\* the key of the loader call whose failed fetch the last step answered with
\* 500: the tab list's when the request had not called readSheetToJson yet
FailedKey ==
  IF lastResp.read = "" THEN TabsKey ELSE DataKey(lastResp.read)
Live(key) == key \in DOMAIN cache /\ now <= cache[key].expiresAt

\* C15 as stated: a call sends at most one upstream request, and the call for
\* the same key that comes next after a failed one fetches upstream again.
C15_AsStated ==
  /\ [](\A p \in Reqs : fetches[p] <= 1)
  /\ [][(lastResp.status = 500 /\ lastOp'.op = "get" /\ lastOp'.key = FailedKey)
          => lastOp'.ret = None /\ fetches'[lastOp'.by] = 1]_vars

\* C15 amended: a call sends at most one upstream request; when the request
\* fails the call ends at once (500, no retry) and the failing step writes
\* nothing. The call for the same key that comes next fetches upstream again
\* unless the key has a live entry, which can only be one that another call,
\* whose fetch succeeded, stored: then it is served that entry without a fetch.
C15_OneFetchNoRetry ==
  /\ [](\A p \in Reqs : /\ fetches[p] <= 1
                        /\ InList(p) => cur[p] = "")
  /\ [][lastResp'.status = 500 =>
          /\ pc[lastResp'.by] \in {"tabsFetch", "gridFetch"}
          /\ fetches[lastResp'.by] = 1 /\ lastResp'.fetches = 1
          /\ pc'[lastResp'.by] = "idle"
          /\ cache' = cache /\ lastSet' = lastSet]_vars
  /\ [](lastResp.status = 500 /\ Live(FailedKey) =>
          /\ FailedKey \in DOMAIN lastSet
          /\ cache[FailedKey].expiresAt = lastSet[FailedKey] + CACHE_TTL_MS)
  /\ [][(lastResp.status = 500 /\ lastOp'.op = "get" /\ lastOp'.key = FailedKey)
          => IF Live(FailedKey)
             THEN /\ lastOp'.ret = Some(cache[FailedKey].data)
                  /\ fetches'[lastOp'.by] = 0
             ELSE /\ lastOp'.ret = None
                  /\ fetches'[lastOp'.by] = 1
                  /\ pc'[lastOp'.by] \in {"tabsFetch", "gridFetch"}]_vars

\* a fetch for tab A has just failed while the entry another call stored for
\* tab A is live
C15_Witness ==
  /\ lastResp.status = 500 /\ lastResp.read = "A"
  /\ Live(DataKey("A"))

\* C16: an entry leaves the cache only in a getCache call for its own key made
\* after its expiry. Every other step, the passing of time and cache calls for
\* other keys included, leaves the entry as it is, so an expired entry that is
\* neither read nor overwritten stays in the cache.
C16_EvictionOnlyByOwnRead ==
  [][\A k \in DOMAIN cache :
       /\ k \notin DOMAIN cache' =>
            /\ lastOp'.op = "get" /\ lastOp'.key = k
            /\ cache[k].expiresAt < now
       /\ (lastOp'.op = "none" \/ lastOp'.key # k) =>
            k \in DOMAIN cache' /\ cache'[k] = cache[k]]_vars

\* the read of the tab list's key has just removed its expired entry, and the
\* entry of tab B, expired as well, is still there
C16_Witness ==
  /\ IsGet /\ lastOp.key = TabsKey /\ TabsKey \notin DOMAIN cache
  /\ Found /\ Old.expiresAt < now
  /\ DataKey("B") \in DOMAIN cache /\ cache[DataKey("B")].expiresAt < now

\* the field names every record of the table nOut[1] is to have
FieldNames ==
  IF Row0Blank THEN {ColName(i) : i \in 1..WidestRow}
  ELSE {KeyAt(i) : i \in 1..Len(nGrid[1])}

\* C17: all records of a normalized table have the same field names, those of
\* the header positions (Col1..ColN without headers), each once, however long
\* the upstream rows are: a position past the end of a shorter row holds the
\* empty string, and with headers the cells of a row past the last header
\* position add no field.
C17_UniformFieldNames ==
  Normalized =>
     \A r \in 1..Len(nOut[1].rows) :
        LET rec == nOut[1].rows[r] IN
        /\ ObjKeys(rec) = FieldNames
        /\ Len(rec) = Cardinality(FieldNames)
        /\ \A s \in 1..Len(nOut[1].rows) : ObjKeys(nOut[1].rows[s]) = ObjKeys(rec)
        /\ \A j \in 1..Len(rec) :
             \E i \in 1..Max(Len(nGrid[1]), WidestRow) :
                /\ rec[j][1] = (IF Row0Blank THEN ColName(i) ELSE KeyAt(i))
                /\ rec[j][2] = CellOr(nGrid[r + 1], i)

\* one header, then a row of two cells (the second is dropped) and a row of
\* none (its field is "")
C17_Witness ==
  /\ Normalized /\ ~Row0Blank /\ Len(nGrid) = 3
  /\ Len(nGrid[1]) = 1 /\ Len(nGrid[2]) = 2 /\ Len(nGrid[3]) = 0
  /\ Len(nOut[1].rows[1]) = 1 /\ nOut[1].rows[2][1][2] = << >>

\* tbl is a table fetched and normalized for tab t
TableOf(tbl, t) == \E g \in UpGrids : tbl = Normalize(t, g)

\* C18: under every interleaving of the requests a loader call reads and
\* writes the entry of its own key only (readSheetToJson(X) the one of
\* ["data", SHEET_ID, X], listSheetTabs the one of ["tabs", SHEET_ID]): its
\* cache calls leave the entries of all other keys as they are, so the entry
\* of a tab and the table served for it are tables fetched and normalized for
\* that tab.
C18_LoadsTouchOwnKeyOnly ==
  /\ [][lastOp'.op # "none" =>
          /\ lastOp'.key =
               IF pc'[lastOp'.by] \in {"tabsFetch", "tabsRet"}
               THEN cacheKey(<<"tabs", SHEET_ID>>)
               ELSE cacheKey(<<"data", SHEET_ID, cur'[lastOp'.by]>>)
          /\ \A k \in (DOMAIN cache \cup DOMAIN cache') \ {lastOp'.key} :
               k \in DOMAIN cache /\ k \in DOMAIN cache' /\ cache'[k] = cache[k]]_vars
  /\ [](\A t \in TabNames :
          cacheKey(<<"data", SHEET_ID, t>>) \in DOMAIN cache =>
             TableOf(cache[cacheKey(<<"data", SHEET_ID, t>>)].data, t))
  /\ [](\A p \in Reqs :
          /\ pc[p] = "dataRet" => TableOf(table[p][1], cur[p])
          /\ \A j \in 1..Len(payload[p]) :
               TableOf(payload[p][j][2], payload[p][j][1]))

\* request p stores the table of tab A while request q is loading tab B, whose
\* entry is in the cache
C18_Witness ==
  \E p \in Reqs, q \in Reqs :
     /\ IsSet /\ lastOp.by = p /\ lastOp.key = DataKey("A")
     /\ pc[q] = "gridFetch" /\ cur[q] = "B"
     /\ DataKey("B") \in DOMAIN cache /\ TabsKey \in DOMAIN cache

\* the string md5 was given to make key k
Hashed(k) == k[2]

\* C19: with the one SHEET_ID, two requests (the tab list, or the data of a
\* tab name) that differ make cacheKey hash different strings, also when a tab
\* name contains the separator "|" or the other parts of a key: the tab list's
\* string is no tab's string, and two tab names never give the same string.
C19_JoinedStringsDistinct ==
  kOut # None =>
     /\ (kParts[1] # kParts[2]) => Hashed(kOut[1][1]) # Hashed(kOut[1][2])
     /\ (kParts[1] = kParts[2]) => kOut[1][1] = kOut[1][2]
     /\ \A n \in 1..2 :
          Hashed(kOut[1][n]) =
             IF Len(kParts[n]) = 2 THEN "tabs|" \o SHEET_ID
             ELSE "data|" \o SHEET_ID \o "|" \o kParts[n][3]

\* the names "A|" and "A" with the separator: "data|S1|A|" and "data|S1|A"
C19_Witness ==
  /\ kOut # None
  /\ kParts[1] = <<"data", SHEET_ID, "A|">> /\ kParts[2] = <<"data", SHEET_ID, "A">>
  /\ Hashed(kOut[1][1]) = "data|S1|A|" /\ Hashed(kOut[1][2]) = "data|S1|A"

\* C20: on the routes /api/data/:tab and /api/data-all a readSheetToJson(t)
\* call, and with it the grid fetch and the data entry of t, is made only for
\* a name t of the tab list the same request got from listSheetTabs: every
\* data entry in the cache, and every grid fetch under way, is for a name that
\* was in a list listSheetTabs returned.
C20_DataOnlyForListedTabs ==
  /\ [](\A p \in Reqs : InRead(p) => cur[p] \in listed)
  /\ [](\A k \in DOMAIN cache :
          k = TabsKey \/ \E t \in listed : k = DataKey(t))
  /\ [](\A t \in ReqTabs \ listed : DataKey(t) \notin DOMAIN cache)
  /\ [][\A p \in Reqs :
          (~InRead(p) /\ InRead(p)') \/ (InRead(p) /\ InRead(p)' /\ idx'[p] # idx[p])
          => /\ pc[p] \in {"tabsRet", "dataRet"}
             /\ route[p] \in {"data", "dataAll"}
             /\ cur'[p] \in Elems(tabs[p])]_vars

\* a /api/data-all request has stored the table of tab B, the second name of
\* the list it was given
C20_Witness ==
  /\ IsSet /\ route[lastOp.by] = "dataAll" /\ lastOp.key = DataKey("B")
  /\ idx[lastOp.by] = 2 /\ tabs[lastOp.by] = <<"A", "B">>
  /\ "B" \in listed

====
